---------------------------- MODULE Spec2Model ----------------------------
(* A model of the bgpstream Rust binding: the Stream lifecycle state      *)
(* machine and its iterator (src/src/stream.rs) and the element decoder   *)
(* (src/src/element.rs).  The retrieval engine (bgpstream_sys) is the     *)
(* environment: each of its calls is logged in `calls` and its results    *)
(* are chosen nondeterministically within the bounds below.               *)
EXTENDS Integers, Sequences, FiniteSets, TLC

(* ------------------------------ bounds ------------------------------ *)
\* positive record pulls the engine delivers before it must exhaust
MaxRecords == 2
\* elements the engine delivers over the whole stream
MaxElems == 2
\* configuration calls (add_filter / add_interval_filter) that reach the engine
MaxConfig == 2
\* pulls that return None
MaxNones == 2
\* no run of the program logs more engine calls than this: new, the
\* configuration, start, the record pulls, the element pulls, drop
MaxCalls == 2 + MaxConfig + 1 + (MaxRecords + 1) + (MaxElems + MaxRecords) + 3

(* --------------------------- StreamState ---------------------------- *)
\* #[derive(Ord, PartialOrd)] orders the variants by declaration position
New == 0
IntervalSet == 1
Started == 2
Ongoing == 3
Complete == 4

StreamState == {New, IntervalSet, Started, Ongoing, Complete}

(* ------------------------- element decoding ------------------------- *)
NUL == 0

\* the tags ElementType names; any other u32 is "UNRECOGNIZED"
ElementTypeTags == {"ANNOUNCEMENT", "PEERSTATE", "RIB", "UNKNOWN", "WITHDRAWAL"}

\* the codes PeerState names; any other u32 is "UNRECOGNIZED"
PeerStateCodes ==
    {"ACTIVE", "CLEARING", "CONNECT", "DELETED", "ESTABLISHED", "IDLE",
     "OPENCONFIRM", "OPENSENT", "UNKNOWN"}

Ok(v) == [k |-> "Ok", v |-> v]
Err(e) == [k |-> "Err", e |-> e]
Panic == [k |-> "Panic"]

IsOk(r) == r.k = "Ok"
IsErr(r) == r.k = "Err"

\* ElementType::from_u32 / PeerState::from_u32 (derive FromPrimitive)
ElementTypeFromU32(t) == IF t \in ElementTypeTags THEN Ok(t) ELSE Err("None")

PeerStateFromU32(c) == IF c \in PeerStateCodes THEN Ok(c) ELSE Err("None")

\* ElementError; IpParseError carries the text "Incorrect address version
\* {}" with addr.version in it, Utf8Error the description of the error
UnexpectedType == [t |-> "UnexpectedType"]
AsnParseError == [t |-> "AsnParseError"]
StringParseError == [t |-> "StringParseError"]
Utf8Error == [t |-> "Utf8Error"]
IpParseError(version) == [t |-> "IpParseError", version |-> version]

\* the engine's bgpstream_ipv2number: the number of an address version tag
bgpstream_ipv2number(version) ==
    CASE version = "IPV4" -> 4
      [] version = "IPV6" -> 6
      [] OTHER -> 255

\* s_addr: the four bytes of the storage read as a u32 by a little-endian
\* host.  A u32 is kept as its two 16-bit halves: hi * 65536 + lo.
SAddr(b) == [hi |-> b[3] + 256 * b[4], lo |-> b[1] + 256 * b[2]]

\* Ipv4Addr::from(u32): the first octet is the most significant byte of the u32
Ipv4FromU32(n) == << n.hi \div 256, n.hi % 256, n.lo \div 256, n.lo % 256 >>

\* parse_addr: addr = [version |-> the tag, bytes |-> the storage]
parse_addr(addr) ==
    CASE bgpstream_ipv2number(addr.version) = 4
           -> Ok([v |-> 4, octets |-> Ipv4FromU32(SAddr(addr.bytes))])
      [] bgpstream_ipv2number(addr.version) = 6
           -> Ok([v |-> 6, octets |-> addr.bytes])
      [] OTHER -> Err(IpParseError(addr.version))

\* str_from_buf: the text up to the first zero byte; no zero byte in the
\* buffer is a StringParseError, bytes that are not UTF-8 a Utf8Error.
\* (The buffers modelled hold only bytes below 128 or the byte 255.)
FirstNul(buf) ==
    IF \E i \in DOMAIN buf : buf[i] = NUL
    THEN CHOOSE i \in DOMAIN buf : buf[i] = NUL /\ \A j \in 1..(i-1) : buf[j] # NUL
    ELSE 0

str_from_buf(buf) ==
    LET i == FirstNul(buf) IN
    IF i = 0 THEN Err(StringParseError)
    ELSE LET text == SubSeq(buf, 1, i - 1) IN
         IF \A j \in DOMAIN text : text[j] < 128 THEN Ok(text) ELSE Err(Utf8Error)

\* a text is a sequence of characters, each a string of length one
Digits == {"0", "1", "2", "3", "4", "5", "6", "7", "8", "9"}

DigitValue(c) ==
    CASE c = "0" -> 0 [] c = "1" -> 1 [] c = "2" -> 2 [] c = "3" -> 3 [] c = "4" -> 4
      [] c = "5" -> 5 [] c = "6" -> 6 [] c = "7" -> 7 [] c = "8" -> 8 [] c = "9" -> 9

RECURSIVE DecimalValue(_)
DecimalValue(ds) ==
    IF ds = <<>> THEN 0
    ELSE 10 * DecimalValue(SubSeq(ds, 1, Len(ds) - 1)) + DigitValue(ds[Len(ds)])

\* u32::from_str: an optional "+" and then one digit or more, nothing else.
\* (A number above u32::MAX is an error too; it has ten digits or more, and
\* the texts modelled are shorter than that.)
U32FromStr(s) ==
    LET ds == IF s # <<>> /\ s[1] = "+" THEN SubSeq(s, 2, Len(s)) ELSE s
    IN  IF ds # <<>> /\ Len(ds) < 10 /\ \A i \in DOMAIN ds : ds[i] \in Digits
        THEN Ok(DecimalValue(ds))
        ELSE Err(AsnParseError)

\* the index of the first c in s, 0 if there is none
Find(s, c) ==
    IF \E i \in DOMAIN s : s[i] = c
    THEN CHOOSE i \in DOMAIN s : s[i] = c /\ \A j \in 1..(i-1) : s[j] # c
    ELSE 0

RECURSIVE Split(_, _)
\* str::split(c): the pieces between the occurrences of c, empty pieces too;
\* the empty text has one piece, the empty one
Split(s, c) ==
    LET i == Find(s, c) IN
    IF i = 0 THEN <<s>>
    ELSE <<SubSeq(s, 1, i - 1)>> \o Split(SubSeq(s, i + 1, Len(s)), c)

RECURSIVE TrimStart(_, _)
TrimStart(s, cs) ==
    IF s # <<>> /\ s[1] \in cs THEN TrimStart(SubSeq(s, 2, Len(s)), cs) ELSE s

RECURSIVE TrimEnd(_, _)
TrimEnd(s, cs) ==
    IF s # <<>> /\ s[Len(s)] \in cs THEN TrimEnd(SubSeq(s, 1, Len(s) - 1), cs) ELSE s

\* str::trim_matches: every leading and every trailing character in cs goes
TrimMatches(s, cs) == TrimEnd(TrimStart(s, cs), cs)

Openers == {"{", "[", "("}

Delimiters == {"{", "[", "(", "}", "]", ")"}

\* PathEntry
As(asn) == [e |-> "As", asn |-> asn]
Collection(asns) == [e |-> "Collection", asns |-> asns]

\* the results of a sequence of ?-operators: the values, or the first error
Collect(rs) ==
    IF \E i \in DOMAIN rs : IsErr(rs[i])
    THEN rs[CHOOSE i \in DOMAIN rs : IsErr(rs[i]) /\ \A j \in 1..(i-1) : IsOk(rs[j])]
    ELSE Ok([i \in DOMAIN rs |-> rs[i].v])

\* line 201: path_str.split(' ')
PathNodes(path_str) == Split(path_str, " ")

\* lines 202-211: what one node of the path becomes
PathEntryFromNode(node) ==
    IF node # <<>> /\ node[1] \in Openers
    THEN LET trimmed == TrimMatches(node, Delimiters)
             sub_nodes == Split(trimmed, ",")
             sub_res == Collect([i \in DOMAIN sub_nodes |-> U32FromStr(sub_nodes[i])])
         IN  IF IsOk(sub_res) THEN Ok(Collection(sub_res.v)) ELSE sub_res
    ELSE LET n == U32FromStr(node) IN IF IsOk(n) THEN Ok(As(n.v)) ELSE n

as_path_from_str(path_str) ==
    LET nodes == PathNodes(path_str)
    IN  Collect([i \in DOMAIN nodes |-> PathEntryFromNode(nodes[i])])

\* the capacity of the buffer the engine renders a path into
PathCapacity == 4096

\* parse_as_path: path = [text |-> what bgpstream_as_path_snprintf renders,
\* written |-> what it returns].  (The engine renders ASCII: to_str succeeds.)
parse_as_path(path) ==
    IF path.written >= PathCapacity THEN Err(AsnParseError)
    ELSE as_path_from_str(path.text)

\* parse_communities: comm is the sequence of what bgpstream_community_set_get
\* returns for 0 .. size-1, each the null pointer or a community
NullItem == [null |-> TRUE]
Community(asn, value) == [null |-> FALSE, asn |-> asn, value |-> value]

parse_communities(comm) ==
    Collect([i \in DOMAIN comm |->
                IF comm[i].null THEN Err(AsnParseError)
                ELSE Ok(<<comm[i].asn, comm[i].value>>)])

\* variant: the path and the communities are decoded before the addresses
AnnouncementDataPathFirst(elem) ==
    LET p == parse_addr(elem.prefix.address)
        n == parse_addr(elem.nexthop)
        a == parse_as_path(elem.aspath)
        c == parse_communities(elem.communities)
    IN  CASE ~IsOk(a) -> a
          [] ~IsOk(c) -> c
          [] ~IsOk(p) -> p
          [] ~IsOk(n) -> n
          [] OTHER -> Ok([prefix |-> [addr |-> p.v, length |-> elem.prefix.mask_len],
                          next_hop |-> n.v, as_path |-> a.v, communities |-> c.v])

\* the payload of an Announcement or Rib: four ?-operators in field order
AnnouncementData(elem) ==
    LET p == parse_addr(elem.prefix.address)
        n == parse_addr(elem.nexthop)
        a == parse_as_path(elem.aspath)
        c == parse_communities(elem.communities)
    IN  CASE ~IsOk(p) -> p
          [] ~IsOk(n) -> n
          [] ~IsOk(a) -> a
          [] ~IsOk(c) -> c
          [] OTHER -> Ok([prefix |-> [addr |-> p.v, length |-> elem.prefix.mask_len],
                          next_hop |-> n.v, as_path |-> a.v, communities |-> c.v])

WithdrawlData(elem) ==
    LET p == parse_addr(elem.prefix.address)
    IN  IF ~IsOk(p) THEN p
        ELSE Ok([prefix |-> [addr |-> p.v, length |-> elem.prefix.mask_len]])

\* variant: an unmapped code is a decode error
PeerDataRecoverable(elem) ==
    LET o == PeerStateFromU32(elem.old_state)
        n == PeerStateFromU32(elem.new_state)
    IN  IF ~IsOk(o) \/ ~IsOk(n) THEN Err(UnexpectedType)
        ELSE Ok([old_peer_state |-> o.v, new_peer_state |-> n.v])

\* Option::unwrap on an unmapped code panics
PeerData(elem) ==
    LET o == PeerStateFromU32(elem.old_state)
        n == PeerStateFromU32(elem.new_state)
    IN  IF ~IsOk(o) \/ ~IsOk(n) THEN Panic
        ELSE Ok([old_peer_state |-> o.v, new_peer_state |-> n.v])

ElementData(elem, tag) ==
    LET d == CASE tag = "ANNOUNCEMENT" -> AnnouncementData(elem)
               [] tag = "RIB" -> AnnouncementData(elem)
               [] tag = "WITHDRAWAL" -> WithdrawlData(elem)
               [] tag = "PEERSTATE" -> PeerData(elem)
               [] OTHER -> Err(UnexpectedType)
    IN  IF IsOk(d) THEN Ok([variant |-> tag, data |-> d.v]) ELSE d

\* Element::create(element, record)
ElementCreate(elem, record) ==
    LET et == ElementTypeFromU32(elem.type_) IN
    IF ~IsOk(et) THEN Err(UnexpectedType)
    ELSE LET data == ElementData(elem, et.v) IN
         IF ~IsOk(data) THEN data
         ELSE LET pa == parse_addr(elem.peer_address)
                  co == str_from_buf(record.dump_collector)
                  pr == str_from_buf(record.dump_project)
              IN  CASE ~IsOk(pa) -> pa
                    [] ~IsOk(co) -> co
                    [] ~IsOk(pr) -> pr
                    [] OTHER -> Ok([timestamp |-> elem.timestamp,
                                    peer_addr |-> pa.v,
                                    peer_asn |-> elem.peer_asnumber,
                                    collector |-> co.v,
                                    project |-> pr.v,
                                    data |-> data.v])

(* ------------------ what the engine may deliver --------------------- *)
Addr4 == [version |-> "IPV4", bytes |-> <<10, 1, 2, 3>>]
AddrBad == [version |-> "UNKNOWN", bytes |-> <<0, 0, 0, 0>>]

RibElem ==
    [type_ |-> "RIB", timestamp |-> 1, peer_address |-> Addr4, peer_asnumber |-> 7,
     prefix |-> [address |-> Addr4, mask_len |-> 8], nexthop |-> Addr4,
     aspath |-> [text |-> <<"7">>, written |-> 1],
     communities |-> <<>>,
     old_state |-> "UNKNOWN", new_state |-> "UNKNOWN"]

\* an announcement whose next hop has no valid address version
MalformedElem == [RibElem EXCEPT !.type_ = "ANNOUNCEMENT", !.nexthop = AddrBad]

\* a peer-state change whose old state code is outside the enumeration
UnmappedPeerElem == [RibElem EXCEPT !.type_ = "PEERSTATE", !.old_state = "UNRECOGNIZED"]

RawElems == {RibElem, MalformedElem, UnmappedPeerElem}

RecordAttrs == {[dump_collector |-> <<114, 0>>, dump_project |-> <<114, 0>>]}

\* --- the raw elements one element pull is checked on, field by field ---
\* address storage with a version tag outside the two the engine numbers 4 and 6
AddrBadNextHop == [version |-> "UNRECOGNIZED_1", bytes |-> <<0, 0, 0, 0>>]
AddrBadPeer == [version |-> "UNRECOGNIZED_2", bytes |-> <<0, 0, 0, 0>>]

\* rendered paths: "7", the empty path, "x", and a path that fills the buffer
PathSamples ==
    {[text |-> <<"7">>, written |-> 1],
     [text |-> <<>>, written |-> 0],
     [text |-> <<"x">>, written |-> 1],
     [text |-> <<"7">>, written |-> PathCapacity]}

\* community sets: one community, and a set whose accessor returns null
CommunitySamples == {<<Community(7, 1)>>, <<NullItem>>}

PeerCodeSamples == {"IDLE", "UNRECOGNIZED"}

\* every combination of a type tag and well-formed or malformed fields
FieldElems ==
    {[type_ |-> t, timestamp |-> 1, peer_address |-> pa, peer_asnumber |-> 7,
      prefix |-> [address |-> p, mask_len |-> 8], nexthop |-> n,
      aspath |-> a, communities |-> c, old_state |-> o, new_state |-> w] :
        t \in ElementTypeTags \cup {"UNRECOGNIZED"},
        pa \in {Addr4, AddrBadPeer}, p \in {Addr4, AddrBad}, n \in {Addr4, AddrBadNextHop},
        a \in PathSamples, c \in CommunitySamples,
        o \in PeerCodeSamples, w \in {"IDLE"}}

\* peer-state changes with every pair of codes, named or not
PeerElems ==
    {[RibElem EXCEPT !.type_ = "PEERSTATE", !.old_state = o, !.new_state = w] :
        o \in PeerStateCodes \cup {"UNRECOGNIZED"},
        w \in PeerStateCodes \cup {"UNRECOGNIZED"}}

\* collector and project buffers: "r" with its terminator; a collector "r"
\* without one, a project with a byte that is not UTF-8
FieldAttrs ==
    {[dump_collector |-> co, dump_project |-> pr] :
        co \in {<<114, 0>>, <<114>>}, pr \in {<<114, 0>>, <<255, 0>>}}

\* a record of one element, as the record pull leaves it in the buffer
OneElemRecords ==
    {[attrs |-> at, elems |-> <<e>>, taken |-> 0] : at \in FieldAttrs, e \in FieldElems}
    \cup {[attrs |-> at, elems |-> <<e>>, taken |-> 0] : at \in RecordAttrs, e \in PeerElems}

\* every raw element the engine can deliver in this model, with the
\* attributes of its record
DecodeInputs ==
    {<<e, at>> : e \in RawElems, at \in RecordAttrs}
    \cup {<<rec.elems[1], rec.attrs>> : rec \in OneElemRecords}

\* Element::create on each of them (a table, so that it is evaluated once)
ElementCreateOf == [x \in DecodeInputs |-> ElementCreate(x[1], x[2])]

\* --- the inputs the pure decoders are checked on ---
\* longest rendered path enumerated
MaxPathLen == 4

PathChars == {"1", "2", " ", "{", "}", ",", "x"}

\* "100 200 {300,400} 500"
ExamplePath ==
    <<"1", "0", "0", " ", "2", "0", "0", " ", "{", "3", "0", "0", ",", "4", "0", "0", "}",
      " ", "5", "0", "0">>

PathTexts == UNION {[1..k -> PathChars] : k \in 0..MaxPathLen} \cup {ExamplePath}

Ipv4Bytes == {0, 1, 2, 3, 10, 255}

\* sixteen bytes: all zero, 1..16, and multiples that wrap around
Ipv6Storages == {[i \in 1..16 |-> (i * k) % 256] : k \in {0, 1, 17, 255}}

AddrInputs ==
    {[version |-> v, bytes |-> b] :
        v \in {"IPV4", "UNKNOWN", "UNRECOGNIZED_1"}, b \in [1..4 -> Ipv4Bytes]}
    \cup {[version |-> "IPV6", bytes |-> b] : b \in Ipv6Storages}

(* ----------------------------- state -------------------------------- *)
VARIABLES
    obj,        \* the Stream value: "none", "failed" (new returned Err), "live", "dropped"
    handle,     \* the engine's retrieval handle: "none", "null", "alloc", "destroyed"
    recbuf,     \* the engine's record buffer: "none", "null", "alloc", "destroyed"
    state,      \* Stream.state
    iterLive,   \* an Iter borrows the stream
    iters,      \* Iters handed out so far
    pc,         \* position inside Iter::next: "idle", "entry", "record", "elem", "panicked"
    calls,      \* the engine calls issued so far, oldest first
    engine,     \* what the last engine call returned: 0 for a null pointer or
                \* void, 1 for a non-null pointer, the integer otherwise
    delivered,  \* the records the engine has delivered, each with the elements pulled from it
    yielded,    \* the Some(..) values Iter::next has returned so far, oldest first
    nones,      \* how many times Iter::next has returned None
    ret         \* the last public operation and what it returned

vars ==
    <<obj, handle, recbuf, state, iterLive, iters, pc, calls, engine, delivered, yielded,
      nones, ret>>


(* --------------------------- BGPStreamError ------------------------- *)
Construction == [t |-> "Construction"]
InvalidFilter(text) == [t |-> "InvalidFilter", text |-> text]
OperationOutOfOrder(msg) == [t |-> "OperationOutOfOrder", msg |-> msg]
StartFailed == [t |-> "StartFailed"]
RecordGetFailure == [t |-> "RecordGetFailure"]
ElementFailure(e) == [t |-> "ElementFailure", e |-> e]

\* "Null character in filter string", as bytes like every filter text
NulMessage == <<78, 117, 108, 108>>

\* Option<Result<Element, BGPStreamError>> and a pull still running
None == [k |-> "None"]
Pending == [k |-> "Pending"]

(* ------------------------------ inputs ------------------------------ *)
\* filter texts as bytes: "c" and "c\0c"
FilterTexts == {<<99>>, <<99, NUL, 99>>}

\* (begin_time, end_time)
Intervals == {<<1, 2>>}

\* one engine call: the function and its arguments besides the handles
Call(fn, arg) == [fn |-> fn, arg |-> arg]

CallsOf(fns) == SelectSeq(calls, LAMBDA c : c.fn \in fns)

Count(fn) == Len(CallsOf({fn}))

ConfigCalls == Len(CallsOf({"parse_filter_string", "add_interval_filter"}))

(* ------------------------------- Init ------------------------------- *)
Init ==
    /\ obj = "none"
    /\ handle = "none"
    /\ recbuf = "none"
    /\ state = New
    /\ iterLive = FALSE
    /\ iters = 0
    /\ pc = "idle"
    /\ calls = <<>>
    /\ engine = 0
    /\ delivered = <<>>
    /\ yielded = <<>>
    /\ nones = 0
    /\ ret = [op |-> "none", res |-> Pending]

(* ---------------------------- Stream::new --------------------------- *)
\* h, r: whether bgpstream_create / bgpstream_record_create return non-null
StreamNew(h, r) ==
    /\ obj = "none"
    /\ engine' = IF h /\ r THEN 1 ELSE 0
    /\ IF ~h
       THEN /\ calls' = Append(calls, Call("create", <<>>))
            /\ handle' = "null"
            /\ recbuf' = recbuf
            /\ obj' = "failed"
            /\ ret' = [op |-> "new", res |-> Err(Construction)]
       ELSE IF ~r
       THEN /\ calls' = calls \o <<Call("create", <<>>), Call("record_create", <<>>)>>
            /\ handle' = "alloc"
            /\ recbuf' = "null"
            /\ obj' = "failed"
            /\ ret' = [op |-> "new", res |-> Err(Construction)]
       ELSE /\ calls' = calls \o <<Call("create", <<>>), Call("record_create", <<>>)>>
            /\ handle' = "alloc"
            /\ recbuf' = "alloc"
            /\ obj' = "live"
            /\ ret' = [op |-> "new", res |-> Ok(<<>>)]
    /\ state' = New
    /\ UNCHANGED <<iterLive, iters, pc, delivered, yielded, nones>>

\* the public methods take &mut self: the stream exists and no Iter borrows it
Callable == obj = "live" /\ ~iterLive /\ pc = "idle"

(* ------------------------- Stream::add_filter ----------------------- *)
\* CString::new fails on an interior zero byte
HasNul(filter) == \E i \in DOMAIN filter : filter[i] = NUL

\* variant: the comparison is strict
AddFilterGuardStrict == state > Started

AddFilterGuard == state >= Started

\* variant: a filter marks the stream as configured, like an interval does
AfterAddFilterConfigures == IF state = New THEN IntervalSet ELSE state

\* lines 54-66 assign nothing to self.state
AfterAddFilter == state

\* result: what bgpstream_parse_filter_string returns, 0 for a rejected text
AddFilter(filter, result) ==
    /\ Callable
    /\ IF AddFilterGuard
       THEN /\ ret' = [op |-> "add_filter",
                       res |-> Err(OperationOutOfOrder("Cannot add filter after running"))]
            /\ UNCHANGED <<calls, engine>>
       ELSE IF HasNul(filter)
       THEN /\ ret' = [op |-> "add_filter", res |-> Err(InvalidFilter(NulMessage))]
            /\ UNCHANGED <<calls, engine>>
       ELSE /\ ConfigCalls < MaxConfig
            /\ calls' = Append(calls, Call("parse_filter_string", filter))
            /\ engine' = result
            /\ ret' = [op |-> "add_filter",
                       res |-> IF result = 0 THEN Err(InvalidFilter(filter)) ELSE Ok(<<>>)]
    /\ state' = AfterAddFilter
    /\ UNCHANGED <<obj, handle, recbuf, iterLive, iters, pc, delivered, yielded, nones>>

(* --------------------- Stream::add_interval_filter ------------------ *)
\* variant: the comparison is strict
AddIntervalGuardStrict == state > Started

AddIntervalGuard == state >= Started

AddIntervalFilter(begin_time, end_time) ==
    /\ Callable
    /\ IF AddIntervalGuard
       THEN /\ ret' = [op |-> "add_interval_filter",
                       res |-> Err(OperationOutOfOrder("Cannot change interval after running"))]
            /\ UNCHANGED <<state, calls, engine>>
       ELSE /\ ConfigCalls < MaxConfig
            /\ state' = IntervalSet
            /\ engine' = 0
            /\ calls' = Append(calls, Call("add_interval_filter", <<begin_time, end_time>>))
            /\ ret' = [op |-> "add_interval_filter", res |-> Ok(<<>>)]
    /\ UNCHANGED <<obj, handle, recbuf, iterLive, iters, pc, delivered, yielded, nones>>

(* ---------------------------- Stream::iter -------------------------- *)
\* variant: only a stream that has pulled a record counts as running
IterGuardOngoing == state >= Ongoing

IterGuard == state >= Started

\* variant: a failed start puts the state back
AfterStartFailureRestores(result) == IF result = 0 THEN Started ELSE state

\* variant: the state is left for the first pull to set
AfterStartKeeps(result) == state

\* line 83: the state is set before bgpstream_start is called, whatever it returns
AfterStart(result) == Started

\* variant: the result of bgpstream_start is ignored
StartOkAlways(result) == TRUE

\* lines 85-90: only the result 0 gets an Iter
StartOk(result) == result = 0

\* result: what bgpstream_start returns, 0 for success
StreamIter(result) ==
    /\ Callable
    /\ IF IterGuard
       THEN /\ ret' = [op |-> "iter",
                       res |-> Err(OperationOutOfOrder(
                           "Must start after interval is set and can only be done once"))]
            /\ UNCHANGED <<state, calls, engine, iterLive, iters>>
       ELSE /\ state' = AfterStart(result)
            /\ engine' = result
            /\ calls' = Append(calls, Call("start", <<>>))
            /\ IF StartOk(result)
               THEN /\ iterLive' = TRUE
                    /\ iters' = iters + 1
                    /\ ret' = [op |-> "iter", res |-> Ok(<<>>)]
               ELSE /\ UNCHANGED <<iterLive, iters>>
                    /\ ret' = [op |-> "iter", res |-> Err(StartFailed)]
    /\ UNCHANGED <<obj, handle, recbuf, pc, delivered, yielded, nones>>

\* the Iter goes out of scope and its borrow ends
ReleaseIter ==
    /\ obj = "live" /\ iterLive /\ pc = "idle"
    /\ iterLive' = FALSE
    /\ ret' = [op |-> "release_iter", res |-> Ok(<<>>)]
    /\ UNCHANGED <<obj, handle, recbuf, state, iters, pc, calls, engine, delivered, yielded,
                   nones>>

(* --------------------------- Drop for Stream ------------------------ *)
\* variant: the handle is destroyed before it is stopped
DropCallsDestroyFirst ==
    (IF handle # "null" THEN <<Call("destroy", <<>>), Call("stop", <<>>)>> ELSE <<>>)
    \o (IF recbuf # "null" THEN <<Call("record_destroy", <<>>)>> ELSE <<>>)

\* the engine calls of drop, in program order
DropCalls ==
    (IF handle # "null" THEN <<Call("stop", <<>>), Call("destroy", <<>>)>> ELSE <<>>)
    \o (IF recbuf # "null" THEN <<Call("record_destroy", <<>>)>> ELSE <<>>)

\* runs when the stream goes out of scope, also while a panic unwinds
StreamDrop ==
    /\ obj = "live" /\ ~iterLive /\ pc \in {"idle", "panicked"}
    /\ calls' = calls \o DropCalls
    /\ engine' = 0
    /\ handle' = IF handle # "null" THEN "destroyed" ELSE handle
    /\ recbuf' = IF recbuf # "null" THEN "destroyed" ELSE recbuf
    /\ obj' = "dropped"
    /\ ret' = [op |-> "drop", res |-> Ok(<<>>)]
    /\ UNCHANGED <<state, iterLive, iters, pc, delivered, yielded, nones>>

(* ----------------------------- Iter::next --------------------------- *)
InNext == pc \in {"entry", "record", "elem"}

\* a pull returns v: Some(..) values are appended to yielded, None is counted
Return(v) ==
    /\ pc' = "idle"
    /\ ret' = [op |-> "next", res |-> v]
    /\ IF v.k = "None"
       THEN nones' = nones + 1 /\ yielded' = yielded
       ELSE nones' = nones /\ yielded' = Append(yielded, v.v)

Some(x) == [k |-> "Some", v |-> x]

\* the caller pulls: it holds the Iter
NextCall ==
    /\ obj = "live" /\ iterLive /\ pc = "idle"
    /\ nones < MaxNones
    /\ pc' = "entry"
    /\ ret' = [op |-> "next", res |-> Pending]
    /\ UNCHANGED <<obj, handle, recbuf, state, iterLive, iters, calls, engine, delivered,
                   yielded, nones>>

\* an assert! fails: the pull unwinds, and the Iter with it
Unwind ==
    /\ pc' = "panicked"
    /\ iterLive' = FALSE
    /\ ret' = [op |-> "next", res |-> Panic]
    /\ UNCHANGED <<yielded, nones>>

\* variant: every pull starts with a record pull
DispatchAlwaysRecord == "record"

\* line 120 and line 132: where a pull that is not at the end goes on
Dispatch == IF state = Started THEN "record" ELSE "elem"

\* lines 115-120: also where the recursive call of line 136 starts
NextEntry ==
    /\ pc = "entry"
    /\ IF ~(state >= Started)
       THEN Unwind
       ELSE IF state = Complete
       THEN Return(None) /\ iterLive' = iterLive
       ELSE /\ pc' = Dispatch
            /\ UNCHANGED <<ret, yielded, nones, iterLive>>
    /\ UNCHANGED <<obj, handle, recbuf, state, iters, calls, engine, delivered>>

\* variant: exhaustion leaves the state alone
AfterRecordKeepsStarted(ret_code) ==
    IF ret_code < 0 THEN Complete
    ELSE IF ret_code = 0 THEN Started
    ELSE Ongoing

\* variant: a failed record pull leaves the state alone
AfterRecordFailureKeepsStarted(ret_code) ==
    IF ret_code < 0 THEN Started
    ELSE IF ret_code = 0 THEN Complete
    ELSE Ongoing

\* what the state becomes for each sign of bgpstream_get_next_record's result
AfterRecord(ret_code) ==
    IF ret_code < 0 THEN Complete
    ELSE IF ret_code = 0 THEN Complete
    ELSE Ongoing

\* variant: exhaustion is reported like a failure
RecordYieldZeroFails(ret_code) ==
    IF ret_code <= 0 THEN Some(Err(RecordGetFailure)) ELSE None

\* lines 122-127: what the pull returns when the record pull delivers no record
RecordYield(ret_code) ==
    IF ret_code < 0 THEN Some(Err(RecordGetFailure)) ELSE None

RECURSIVE Flat(_)
\* the elements of a sequence of records, in order
Flat(recs) ==
    IF recs = <<>> THEN <<>>
    ELSE Flat(SubSeq(recs, 1, Len(recs) - 1)) \o recs[Len(recs)].elems

\* the records the engine can still deliver: any elements within the budget
RecordContents ==
    UNION {[1..k -> RawElems] : k \in 0..(MaxElems - Len(Flat(delivered)))}

\* lines 121-131; a positive result puts a record in the buffer: its
\* attributes, its elements, and how many of them have been pulled
NextRecord(ret_code, attrs, elems) ==
    /\ pc = "record"
    /\ Len(calls) < MaxCalls
    /\ ret_code > 0 => Len(delivered) < MaxRecords
    /\ ret_code <= 0 => elems = <<>>
    /\ calls' = Append(calls, Call("get_next_record", <<>>))
    /\ engine' = ret_code
    /\ state' = AfterRecord(ret_code)
    /\ IF ret_code <= 0
       THEN Return(RecordYield(ret_code)) /\ delivered' = delivered
       ELSE /\ delivered' = Append(delivered, [attrs |-> attrs, elems |-> elems, taken |-> 0])
            /\ pc' = "elem"
            /\ UNCHANGED <<ret, yielded, nones>>
    /\ UNCHANGED <<obj, handle, recbuf, iterLive, iters>>

\* the record in the buffer
Current == delivered[Len(delivered)]

\* bgpstream_record_get_next_elem returns the null sentinel once every
\* element of the record in the buffer has been pulled
ElemIsNull == Current.taken >= Len(Current.elems)

\* variant: the record is never left
AfterNullElemStays == Ongoing

\* line 135: the state after the element pull returned the null sentinel
AfterNullElem == Started

\* variant: a decode failure ends the iteration like a record failure
AfterElemFailureCompletes(r) == IF IsOk(r) THEN state ELSE Complete

\* lines 138-142 assign nothing: the state after an element was decoded
AfterElem(r) == state

\* how a decode result is handed to the caller (lines 139-142)
Wrap(r) == IF IsOk(r) THEN Some(Ok(r.v)) ELSE Some(Err(ElementFailure(r.e)))

\* lines 132-142
NextElem ==
    /\ pc = "elem"
    /\ IF state # Ongoing
       THEN Unwind /\ UNCHANGED <<state, calls, engine, delivered>>
       ELSE /\ Len(calls) < MaxCalls
            /\ calls' = Append(calls, Call("record_get_next_elem", <<>>))
            /\ engine' = IF ElemIsNull THEN 0 ELSE 1
            /\ IF ElemIsNull
               THEN /\ state' = AfterNullElem
                    /\ pc' = "entry"
                    /\ UNCHANGED <<ret, yielded, nones, iterLive, delivered>>
               ELSE /\ delivered' = [delivered EXCEPT ![Len(delivered)].taken = @ + 1]
                    /\ LET raw_elem == Current.elems[Current.taken + 1]
                           r == ElementCreateOf[<<raw_elem, Current.attrs>>]
                       IN  IF r.k = "Panic"
                           THEN Unwind /\ state' = state
                           ELSE /\ Return(Wrap(r))
                                /\ iterLive' = iterLive
                                /\ state' = AfterElem(r)
    /\ UNCHANGED <<obj, handle, recbuf, iters>>

(* ------------------------------- Next ------------------------------- *)
\* the signs of bgpstream_get_next_record's result
RetCodes == {-1, 0, 1}

\* bgpstream_parse_filter_string: 0 rejects the text
ParseResults == {0, 1}

\* bgpstream_start: 0 is success
StartResults == {-1, 0}

Next ==
    \/ \E h \in BOOLEAN, r \in BOOLEAN : StreamNew(h, r)
    \/ \E filter \in FilterTexts, result \in ParseResults : AddFilter(filter, result)
    \/ \E iv \in Intervals : AddIntervalFilter(iv[1], iv[2])
    \/ \E result \in StartResults : StreamIter(result)
    \/ ReleaseIter
    \/ StreamDrop
    \/ NextCall
    \/ NextEntry
    \/ \E ret_code \in RetCodes, attrs \in RecordAttrs, elems \in RecordContents :
          NextRecord(ret_code, attrs, elems)
    \/ NextElem

Spec == Init /\ [][Next]_vars

\* a pull that has been called runs on: control is synchronous inside Iter::next
PullStep ==
    \/ NextEntry
    \/ \E ret_code \in RetCodes, attrs \in RecordAttrs, elems \in RecordContents :
          NextRecord(ret_code, attrs, elems)
    \/ NextElem

FairSpec == Spec /\ WF_vars(PullStep)

(* ------------------ one element pull, every raw element -------------- *)
\* a started stream whose first record pull has just left a record of one
\* element in the buffer: the state of Spec after new, iter, next and a
\* positive record pull, for every record in OneElemRecords
ElemInit ==
    /\ obj = "live"
    /\ handle = "alloc"
    /\ recbuf = "alloc"
    /\ state = Ongoing
    /\ iterLive = TRUE
    /\ iters = 1
    /\ pc = "elem"
    /\ calls = <<Call("create", <<>>), Call("record_create", <<>>), Call("start", <<>>),
                 Call("get_next_record", <<>>)>>
    /\ engine = 1
    /\ \E rec \in OneElemRecords : delivered = <<rec>>
    /\ yielded = <<>>
    /\ nones = 0
    /\ ret = [op |-> "next", res |-> Pending]

\* the engine has no second record
ElemNext ==
    \/ NextElem
    \/ NextCall
    \/ NextEntry
    \/ \E ret_code \in RetCodes \ {1}, attrs \in RecordAttrs : NextRecord(ret_code, attrs, <<>>)
    \/ ReleaseIter
    \/ StreamDrop

ElemSpec == ElemInit /\ [][ElemNext]_vars

(* ------------------------- the pure decoders ------------------------ *)
\* no stream exists; ret holds the function, its argument and its result
NoStream ==
    /\ obj = "none" /\ handle = "none" /\ recbuf = "none" /\ state = New
    /\ iterLive = FALSE /\ iters = 0 /\ pc = "idle" /\ calls = <<>> /\ engine = 0
    /\ delivered = <<>> /\ yielded = <<>> /\ nones = 0

PureInit ==
    /\ NoStream
    /\ \/ \E path_str \in PathTexts :
            ret = [op |-> "as_path_from_str", arg |-> path_str, res |-> Pending]
       \/ \E addr \in AddrInputs :
            ret = [op |-> "parse_addr", arg |-> addr, res |-> Pending]

AsPathFromStr ==
    /\ ret.op = "as_path_from_str" /\ ret.res = Pending
    /\ ret' = [ret EXCEPT !.res = as_path_from_str(ret.arg)]
    /\ UNCHANGED <<obj, handle, recbuf, state, iterLive, iters, pc, calls, engine, delivered,
                   yielded, nones>>

ParseAddr ==
    /\ ret.op = "parse_addr" /\ ret.res = Pending
    /\ ret' = [ret EXCEPT !.res = parse_addr(ret.arg)]
    /\ UNCHANGED <<obj, handle, recbuf, state, iterLive, iters, pc, calls, engine, delivered,
                   yielded, nones>>

PureNext == AsPathFromStr \/ ParseAddr

PureSpec == PureInit /\ [][PureNext]_vars

(* ============================== claims ============================== *)
IsOutOfOrder(r) == IsErr(r) /\ r.e.t = "OperationOutOfOrder"

Last(seq) == seq[Len(seq)]

\* the step issues one more engine call, fn
Issues(fn) == calls' # calls /\ Len(calls') = Len(calls) + 1 /\ Last(calls').fn = fn

PullCalls == CallsOf({"get_next_record", "record_get_next_elem"})

\* a step in which a pull hands its result to the caller
PullReturns == pc # "idle" /\ pc' = "idle"

\* C1: before iteration starts add_interval_filter returns Ok and add_filter
\* returns Ok for every text the engine accepts; from Started on both return
\* OperationOutOfOrder, call nothing in the engine and leave the state alone.
C1_ConfigOrdering ==
    [][ /\ (ret'.op = "add_interval_filter" /\ state < Started) => IsOk(ret'.res)
        /\ (ret'.op = "add_filter" /\ state < Started /\ Issues("parse_filter_string")
              /\ engine' # 0) => IsOk(ret'.res)
        /\ (ret'.op \in {"add_filter", "add_interval_filter"} /\ state >= Started)
              => (IsOutOfOrder(ret'.res) /\ calls' = calls /\ state' = state)
      ]_vars

\* two configuration calls went through before the start, and one made on the
\* finished stream was turned away
C1_Witness ==
    /\ ret.op = "add_interval_filter" /\ IsOutOfOrder(ret.res)
    /\ state = Complete
    /\ Count("parse_filter_string") = 1 /\ Count("add_interval_filter") = 1

\* C2: the engine's start is called at most once, at most one Iter is handed
\* out, and every iter() after the first returns OperationOutOfOrder without
\* calling the engine.
C2_StartOnce ==
    /\ [](Count("start") <= 1 /\ iters <= 1)
    /\ [][ (ret'.op = "iter" /\ Count("start") >= 1)
              => (IsOutOfOrder(ret'.res) /\ calls' = calls /\ iters' = iters
                  /\ ~iterLive') ]_vars

\* a second iter() on a stream that ran to completion and whose Iter is gone
C2_Witness ==
    ret.op = "iter" /\ IsOutOfOrder(ret.res) /\ state = Complete /\ iters = 1

\* C3: after a pull has returned None the state is Complete for good, every
\* further pull returns None, and no record or element pull is issued again.
C3_TerminationIdempotent ==
    /\ [](nones >= 1 => state = Complete)
    /\ [][ nones >= 1 =>
             /\ PullCalls' = PullCalls
             /\ yielded' = yielded
             /\ pc' # "panicked"
             /\ PullReturns => (ret'.res = None /\ nones' = nones + 1) ]_vars

\* a pull after the end of the sequence has returned
C3_Witness == nones >= 2 /\ ret.op = "next" /\ ret.res = None

IsRecordGetFailure(y) == IsErr(y) /\ y.e.t = "RecordGetFailure"

IsElementFailure(y) == IsErr(y) /\ y.e.t = "ElementFailure"

\* C4: a negative record pull makes the state Complete and that pull returns
\* RecordGetFailure; the error is yielded at most once, it is the last value
\* yielded, and the pull after it returns None without calling the engine.
C4_RecordFailureOnce ==
    /\ [](\A i \in DOMAIN yielded :
              IsRecordGetFailure(yielded[i]) => (i = Len(yielded) /\ state = Complete))
    /\ [][ /\ (Issues("get_next_record") /\ engine' < 0)
                => /\ state' = Complete
                   /\ PullReturns
                   /\ ret'.res = Some(Err(RecordGetFailure))
                   /\ yielded' = Append(yielded, Err(RecordGetFailure))
           /\ (yielded # <<>> /\ IsRecordGetFailure(Last(yielded)) /\ PullReturns)
                => (ret'.res = None /\ calls' = calls)
         ]_vars

\* the record pull failed after an element had been yielded, and the pull
\* after the failure returned None
C4_Witness ==
    /\ Len(yielded) = 2 /\ IsRecordGetFailure(yielded[2])
    /\ ret.op = "next" /\ ret.res = None /\ nones = 1

\* the decode result of the element the engine handed over in this step
DecodedNow == ElementCreate(Current.elems[Current.taken + 1], Current.attrs)

\* C5: an element whose decode fails is yielded as one ElementFailure and the
\* state stays Ongoing; the engine call after it is the next element pull on
\* the same record, not a record pull and not the end.
C5_ElementFailureContinues ==
    /\ [](yielded # <<>> /\ IsElementFailure(Last(yielded))
             /\ Last(calls).fn = "record_get_next_elem" /\ engine = 1
             => state = Ongoing)
    /\ [][ /\ (Issues("record_get_next_elem") /\ engine' = 1 /\ IsErr(DecodedNow))
                => /\ PullReturns
                   /\ ret'.res = Some(Err(ElementFailure(DecodedNow.e)))
                   /\ yielded' = Append(yielded, Err(ElementFailure(DecodedNow.e)))
                   /\ state' = Ongoing
           /\ (yielded # <<>> /\ IsElementFailure(Last(yielded)) /\ pc = "entry"
                 /\ Last(calls).fn = "record_get_next_elem" /\ engine = 1)
                => (pc' = "elem" /\ state' = Ongoing)
           /\ (yielded # <<>> /\ IsElementFailure(Last(yielded))
                 /\ Last(calls).fn = "record_get_next_elem" /\ engine = 1
                 /\ calls' # calls /\ obj' = "live")
                => Issues("record_get_next_elem")
         ]_vars

\* a malformed element and then the well-formed one behind it in the record
C5_Witness ==
    /\ Len(delivered) = 1 /\ delivered[1].elems = <<MalformedElem, RibElem>>
    /\ Len(yielded) = 2 /\ IsElementFailure(yielded[1]) /\ IsOk(yielded[2])

RECURSIVE Decoded(_)
\* what Element::create makes of each element of a sequence of records, in order
Decoded(recs) ==
    IF recs = <<>> THEN <<>>
    ELSE LET rec == recs[Len(recs)] IN
         Decoded(SubSeq(recs, 1, Len(recs) - 1))
           \o [i \in 1..Len(rec.elems) |-> ElementCreate(rec.elems[i], rec.attrs)]

RECURSIVE Taken(_)
\* the elements pulled from the engine so far, in record order
Taken(recs) ==
    IF recs = <<>> THEN <<>>
    ELSE LET rec == recs[Len(recs)] IN
         Taken(SubSeq(recs, 1, Len(recs) - 1)) \o SubSeq(rec.elems, 1, rec.taken)

\* the values yielded for elements: all but a closing RecordGetFailure
ElementResults ==
    IF yielded # <<>> /\ IsRecordGetFailure(Last(yielded))
    THEN SubSeq(yielded, 1, Len(yielded) - 1)
    ELSE yielded

C7_PullTerminates ==
    /\ InNext ~> ~InNext
    /\ [][ /\ (Issues("record_get_next_elem") /\ engine' = 0)
                => (state' = Started /\ pc' = "entry")
           /\ (pc = "entry" /\ state = Started) => pc' = "record"
           /\ (Issues("record_get_next_elem") /\ engine' = 1) => ~InNext'
           /\ (Issues("get_next_record") /\ engine' <= 0) => PullReturns
           /\ (Issues("get_next_record") /\ engine' > 0) => pc' = "elem"
         ]_vars

\* one pull went past two records without elements and returned None at the
\* end of the stream
C7_Witness ==
    /\ Len(delivered) = 2 /\ delivered[1].elems = <<>> /\ delivered[2].elems = <<>>
    /\ Count("get_next_record") = 3
    /\ pc = "idle" /\ yielded = <<>> /\ nones = 1

\* C8: no step lowers the state, except the step of next that finds no element
\* left in the record and goes from Ongoing back to Started; so Complete is
\* never left and New and IntervalSet are never seen again after Started.
C8_StateForward ==
    [][ \/ state' >= state
        \/ /\ state = Ongoing /\ state' = Started
           /\ pc = "elem" /\ Issues("record_get_next_elem") /\ engine' = 0
      ]_vars

\* a stream that went New, IntervalSet, Started, Ongoing, back to Started and
\* on to Complete
C8_Witness ==
    /\ state = Complete
    /\ Count("add_interval_filter") >= 1
    /\ Len(delivered) >= 1

\* the last n engine calls, by name
LastCalls(n) == [i \in 1..n |-> calls[Len(calls) - n + i].fn]

TeardownFns == {"stop", "destroy", "record_destroy"}

\* C9 as amended: dropping a stream, whether or not its iteration was ever
\* started, stops and then destroys the retrieval handle and then destroys the
\* record buffer, each exactly once; these are the last engine calls, and none
\* of them is issued before the drop.
C9_Teardown ==
    /\ obj = "dropped" =>
         /\ Len(calls) >= 3
         /\ LastCalls(3) = <<"stop", "destroy", "record_destroy">>
         /\ Len(CallsOf(TeardownFns)) = 3
         /\ handle = "destroyed" /\ recbuf = "destroyed"
    /\ obj # "dropped" => Len(CallsOf(TeardownFns)) = 0

\* a stream dropped before iter() was ever called, after one configuration call
C9_Witness == obj = "dropped" /\ Count("start") = 0 /\ ConfigCalls = 1

\* C9 as stated: a stream dropped before its iteration was started gets no
\* stop signal; a stream dropped after the start gets stop, destroy and the
\* destruction of the record buffer, once each and in that order.
C9_NoStopBeforeStart ==
    obj = "dropped" =>
        /\ Count("start") = 0 => Count("stop") = 0
        /\ Count("start") > 0 =>
             (LastCalls(3) = <<"stop", "destroy", "record_destroy">>
              /\ Len(CallsOf(TeardownFns)) = 3)
        /\ Count("destroy") = 1 /\ Count("record_destroy") = 1

\* C10: once the stream is gone, because new failed or because it was dropped,
\* nothing the engine allocated for it is still allocated.
C10_ReleaseIndependent ==
    obj \in {"failed", "dropped"} => (handle # "alloc" /\ recbuf # "alloc")

\* the raw element the engine hands over in this step, and its record's attributes
RawNow == Current.elems[Current.taken + 1]

AttrsNow == Current.attrs

\* the step in which the element pull hands over an element
ElemHandedOver == pc = "elem" /\ Issues("record_get_next_elem") /\ engine' = 1

\* the last engine call was fn and returned a result in results
LastCallWas(fn, results) == calls # <<>> /\ Last(calls).fn = fn /\ engine \in results

\* C13: a record pull that returns zero makes the state Complete, and the
\* pull it serves returns None: nothing is yielded, no error.  A
\* RecordGetFailure is yielded only by a record pull with a negative result,
\* so the sign of the result alone tells failure from exhaustion.
C13_ExhaustionIsNotFailure ==
    [][ /\ (Issues("get_next_record") /\ engine' = 0)
             => /\ state' = Complete
                /\ PullReturns
                /\ ret'.res = None
                /\ yielded' = yielded /\ nones' = nones + 1
        /\ (yielded' # yielded /\ IsRecordGetFailure(Last(yielded')))
             => (Issues("get_next_record") /\ engine' < 0)
        /\ Issues("get_next_record")
             => ((ret'.res = Some(Err(RecordGetFailure))) <=> (engine' < 0))
      ]_vars

\* the stream ran dry after one element: the record pull returned zero and
\* the pull returned None, with no error among the values yielded
C13_Witness ==
    /\ LastCallWas("get_next_record", {0})
    /\ state = Complete /\ ret.op = "next" /\ ret.res = None /\ nones = 1
    /\ Len(yielded) = 1 /\ IsOk(yielded[1])

\* C14: add_filter leaves the state as it was on every path: text accepted,
\* text rejected by the engine, text with a NUL character, call out of order.
\* When the engine rejects the text the call returns InvalidFilter with the
\* text it was given, which is the text the engine was given.
C14_AddFilterFrame ==
    [][ ret'.op = "add_filter" =>
          /\ state' = state
          /\ (Issues("parse_filter_string") /\ engine' = 0)
               => /\ ret'.res = Err(InvalidFilter(Last(calls').arg))
                  /\ Last(calls').arg \in FilterTexts
          /\ (Issues("parse_filter_string") /\ engine' # 0) => IsOk(ret'.res)
          /\ calls' = calls => IsErr(ret'.res)
      ]_vars

\* the engine rejected a filter on a stream still in state New
C14_Witness ==
    /\ ret.op = "add_filter" /\ ret.res = Err(InvalidFilter(<<99>>))
    /\ LastCallWas("parse_filter_string", {0})
    /\ state = New

\* bgpstream_start was called and no Iter came of it
StartHasFailed == Count("start") > iters

\* C18: when bgpstream_start fails, iter() returns StartFailed, hands out no
\* Iter and leaves the state Started; from then on add_filter,
\* add_interval_filter and iter return OperationOutOfOrder, bgpstream_start
\* is not called again and no record or element is ever pulled.
C18_StartFailure ==
    /\ [][ /\ (Issues("start") /\ engine' # 0)
                => /\ ret'.op = "iter" /\ ret'.res = Err(StartFailed)
                   /\ ~iterLive' /\ iters' = iters
                   /\ state' = Started
           /\ StartHasFailed
                => /\ ~Issues("start")
                   /\ ret'.op \in {"add_filter", "add_interval_filter", "iter"}
                        => IsOutOfOrder(ret'.res)
         ]_vars
    /\ [](StartHasFailed =>
             /\ state = Started /\ ~iterLive /\ iters = 0
             /\ Count("start") = 1 /\ PullCalls = <<>>)

\* after a failed start a second iter() was turned away
C18_Witness ==
    /\ StartHasFailed
    /\ ret.op = "iter" /\ IsOutOfOrder(ret.res)
    /\ LastCallWas("start", {-1})

\* C19: neither assert! of Iter::next fails: next is entered only with the
\* state Started, Ongoing or Complete, the element pull is reached only with
\* the state Ongoing, and a pull unwinds only when the decoder aborts.
C19_AssertionsHold ==
    /\ [](pc = "entry" => state \in {Started, Ongoing, Complete})
    /\ [](pc = "elem" => state = Ongoing)
    /\ [][ (pc # "panicked" /\ pc' = "panicked")
              => (ElemHandedOver /\ DecodedNow = Panic) ]_vars

\* next has been entered in each of the three states: on the fresh stream,
\* inside a record, and twice at the end
C19_Witness ==
    /\ Len(yielded) = 2 /\ Len(delivered) = 1
    /\ nones = 2 /\ state = Complete /\ pc = "idle"

\* C20: the record pull is issued only right after a successful start or
\* after the element pull on the record in the buffer returned null; the
\* element pull only right after a positive record pull or an element pull
\* that returned an element; and once a record pull has returned zero or a
\* negative result (the state is Complete) neither is issued again.
C20_PullProtocol ==
    [][ /\ Issues("get_next_record")
             => /\ Count("start") = 1 /\ iters = 1
                /\ \/ (LastCallWas("start", {0}) /\ delivered = <<>>)
                   \/ (LastCallWas("record_get_next_elem", {0}) /\ ElemIsNull)
        /\ Issues("record_get_next_elem")
             => /\ delivered # <<>>
                /\ \/ LastCallWas("get_next_record", {1})
                   \/ LastCallWas("record_get_next_elem", {1})
        /\ (state = Complete \/ LastCallWas("get_next_record", {-1, 0}))
             => PullCalls' = PullCalls
      ]_vars

\* two records were read to their ends and the third record pull found none
C20_Witness ==
    /\ Count("get_next_record") = 3 /\ Count("record_get_next_elem") = 4
    /\ state = Complete /\ LastCallWas("get_next_record", {0})

(* ---------------------- claims on the decoders ---------------------- *)
\* a rendered path read as the claims read it: the tokens between runs of
\* spaces, each a number or a group of numbers in a pair of delimiters
Tokens(text) == SelectSeq(Split(text, " "), LAMBDA tok : tok # <<>>)

IsNumber(tok) == tok # <<>> /\ Len(tok) < 10 /\ \A i \in DOMAIN tok : tok[i] \in Digits

IsGroup(tok) ==
    /\ Len(tok) >= 3
    /\ <<tok[1], tok[Len(tok)]>> \in {<<"{", "}">>, <<"[", "]">>, <<"(", ")">>}
    /\ LET subs == Split(SubSeq(tok, 2, Len(tok) - 1), ",")
       IN  \A i \in DOMAIN subs : IsNumber(subs[i])

EntryOf(tok) ==
    IF IsGroup(tok)
    THEN LET subs == Split(SubSeq(tok, 2, Len(tok) - 1), ",")
         IN  Collection([i \in DOMAIN subs |-> DecimalValue(subs[i])])
    ELSE As(DecimalValue(tok))

IsRenderedPath(text) == \A i \in DOMAIN Tokens(text) : IsNumber(Tokens(text)[i]) \/ IsGroup(Tokens(text)[i])

\* well-formed fields, by what the engine put in them
GoodAddr(addr) == addr.version \in {"IPV4", "IPV6"}

GoodPath(path) == path.written < PathCapacity /\ IsRenderedPath(path.text)

GoodCommunities(comm) == \A i \in DOMAIN comm : ~comm[i].null

GoodCode(c) == c \in PeerStateCodes

GoodText(buf) ==
    \E i \in DOMAIN buf : buf[i] = NUL /\ \A j \in 1..(i-1) : buf[j] # NUL /\ buf[j] < 128

DecodedTags == {"ANNOUNCEMENT", "RIB", "WITHDRAWAL", "PEERSTATE"}

\* the fields a tag requires are well-formed: the payload's, and the shared ones
GoodPayload(raw) ==
    CASE raw.type_ \in {"ANNOUNCEMENT", "RIB"}
           -> /\ GoodAddr(raw.prefix.address) /\ GoodAddr(raw.nexthop)
              /\ GoodPath(raw.aspath) /\ GoodCommunities(raw.communities)
      [] raw.type_ = "WITHDRAWAL" -> GoodAddr(raw.prefix.address)
      [] raw.type_ = "PEERSTATE" -> GoodCode(raw.old_state) /\ GoodCode(raw.new_state)
      [] OTHER -> FALSE

GoodShared(raw, attrs) ==
    GoodAddr(raw.peer_address) /\ GoodText(attrs.dump_collector) /\ GoodText(attrs.dump_project)

WellFormed(raw, attrs) ==
    raw.type_ \in DecodedTags /\ GoodPayload(raw) /\ GoodShared(raw, attrs)

IsElement(res) == res.k = "Some" /\ IsOk(res.v)

IsDecodeError(res) == res.k = "Some" /\ IsElementFailure(res.v)

\* C11: an element pull that hands over a well-formed raw element tagged
\* Announcement, Rib, Withdrawal or PeerState yields an Element whose payload
\* variant is that tag's; one with the Unknown tag or an unrecognized tag
\* yields UnexpectedType; and one with a required field that is malformed
\* yields an error and no Element (or, for a peer-state code outside the
\* enumeration, is aborted and yields nothing).
C11_TagFaithful ==
    [][ ElemHandedOver =>
          /\ WellFormed(RawNow, AttrsNow)
               => (IsElement(ret'.res) /\ ret'.res.v.v.data.variant = RawNow.type_)
          /\ RawNow.type_ \notin DecodedTags
               => ret'.res = Some(Err(ElementFailure(UnexpectedType)))
          /\ (RawNow.type_ \in DecodedTags /\ ~WellFormed(RawNow, AttrsNow))
               => \/ IsDecodeError(ret'.res)
                  \/ /\ ret'.res = Panic
                     /\ RawNow.type_ = "PEERSTATE"
                     /\ ~(GoodCode(RawNow.old_state) /\ GoodCode(RawNow.new_state))
      ]_vars

\* C12: as_path_from_str makes one entry of every token of the rendered text,
\* in order: a Collection of a group's numbers, an As of a number; the empty
\* text gives the empty path, runs of spaces separate like one space, and a
\* token that is neither a number nor a group of numbers is an AsnParseError.
C12_AsPathDecode ==
    (ret.op = "as_path_from_str" /\ ret.res # Pending) =>
        LET toks == Tokens(ret.arg) IN
        IF \A i \in DOMAIN toks : IsNumber(toks[i]) \/ IsGroup(toks[i])
        THEN ret.res = Ok([i \in DOMAIN toks |-> EntryOf(toks[i])])
        ELSE ret.res = Err(AsnParseError)

\* the example of the specification decodes as it says (for the record)
ExampleDecodes ==
    as_path_from_str(ExamplePath)
        = Ok(<<As(100), As(200), Collection(<<300, 400>>), As(500)>>)

\* the results of the decode steps of a raw element, in the order of the
\* claim: the type tag, the payload fields of the tag, the shared fields
TagStep(raw) == IF raw.type_ \in DecodedTags THEN Ok(raw.type_) ELSE Err(UnexpectedType)

PayloadSteps(raw) ==
    CASE raw.type_ \in {"ANNOUNCEMENT", "RIB"}
           -> <<parse_addr(raw.prefix.address), parse_addr(raw.nexthop),
                parse_as_path(raw.aspath), parse_communities(raw.communities)>>
      [] raw.type_ = "WITHDRAWAL" -> <<parse_addr(raw.prefix.address)>>
      [] OTHER -> <<>>

SharedSteps(raw, attrs) ==
    <<parse_addr(raw.peer_address), str_from_buf(attrs.dump_collector),
      str_from_buf(attrs.dump_project)>>

DecodeSteps(raw, attrs) == <<TagStep(raw)>> \o PayloadSteps(raw) \o SharedSteps(raw, attrs)

FailingSteps(raw, attrs) == {i \in DOMAIN DecodeSteps(raw, attrs) : IsErr(DecodeSteps(raw, attrs)[i])}

EarliestFailure(raw, attrs) ==
    DecodeSteps(raw, attrs)[CHOOSE i \in FailingSteps(raw, attrs) :
                               \A j \in FailingSteps(raw, attrs) : i <= j].e

\* C15: when decode steps of a raw element fail, the pull yields
\* ElementFailure with the error of the earliest failing step, in the order
\* type tag, prefix address, next hop, AS path, communities (the last three
\* for Announcement and Rib only), peer address, collector, project; when
\* none fails it yields the Element.  (A PeerState element with an unmapped
\* code is aborted before its shared fields are looked at: see C17.)
C15_EarliestFailure ==
    [][ (ElemHandedOver /\ ret'.res # Panic) =>
          IF FailingSteps(RawNow, AttrsNow) = {}
          THEN IsElement(ret'.res)
          ELSE /\ ret'.res = Some(Err(ElementFailure(EarliestFailure(RawNow, AttrsNow))))
               /\ yielded' = Append(yielded, Err(ElementFailure(EarliestFailure(RawNow, AttrsNow))))
      ]_vars

\* an announcement whose prefix, next hop, path, communities and peer address
\* are all malformed, in a record whose collector and project are too: the
\* error yielded is the prefix's
C15_Witness ==
    /\ Len(delivered) = 1 /\ delivered[1].taken = 1
    /\ LET raw == delivered[1].elems[1] IN
         /\ raw.type_ = "ANNOUNCEMENT"
         /\ raw.prefix.address = AddrBad /\ raw.nexthop = AddrBadNextHop
         /\ raw.aspath.text = <<"x">> /\ raw.communities = <<NullItem>>
         /\ raw.peer_address = AddrBadPeer
    /\ delivered[1].attrs = [dump_collector |-> <<114>>, dump_project |-> <<255, 0>>]
    /\ yielded = <<Err(ElementFailure(IpParseError("UNKNOWN")))>>

\* C16: parse_addr copies the address: for version 4 the four octets are the
\* four bytes of the storage in memory order, for version 6 the sixteen bytes
\* in order; any other version is an IpParseError.
C16_AddressCopy ==
    (ret.op = "parse_addr" /\ ret.res # Pending) =>
        CASE ret.arg.version = "IPV4" -> ret.res = Ok([v |-> 4, octets |-> ret.arg.bytes])
          [] ret.arg.version = "IPV6" -> ret.res = Ok([v |-> 6, octets |-> ret.arg.bytes])
          [] OTHER -> IsErr(ret.res) /\ ret.res.e.t = "IpParseError"

\* C17: a PeerState element with an old or new code outside the enumeration
\* aborts the pull: nothing is yielded for it, and afterwards no pull is made
\* and nothing more is yielded.  With both codes inside the enumeration the
\* decode goes on, and the Element it produces holds the two named states.
C17_UnmappedCodeAborts ==
    [][ /\ (ElemHandedOver /\ RawNow.type_ = "PEERSTATE")
             => IF GoodCode(RawNow.old_state) /\ GoodCode(RawNow.new_state)
                THEN /\ ret'.res # Panic /\ pc' = "idle"
                     /\ IsElement(ret'.res)
                          => ret'.res.v.v.data.data =
                               [old_peer_state |-> RawNow.old_state,
                                new_peer_state |-> RawNow.new_state]
                ELSE /\ ret'.res = Panic /\ pc' = "panicked"
                     /\ ~iterLive'
                     /\ yielded' = yielded /\ nones' = nones
        /\ pc = "panicked"
             => /\ pc' = "panicked" /\ ~iterLive'
                /\ yielded' = yielded /\ nones' = nones
                /\ PullCalls' = PullCalls
      ]_vars

\* the pull of a peer-state change with a named old code and an unmapped new
\* code was aborted, and the stream has been dropped since
C17_Witness ==
    /\ pc = "panicked" /\ obj = "dropped"
    /\ Len(delivered) = 1
    /\ delivered[1].elems[1].type_ = "PEERSTATE"
    /\ delivered[1].elems[1].old_state = "ESTABLISHED"
    /\ delivered[1].elems[1].new_state = "UNRECOGNIZED"
    /\ yielded = <<>> /\ nones = 0

===========================================================================
